---------------------------- MODULE Spec2Model ----------------------------
(***************************************************************************)
(* vendor-device.cpp: LibUsbThread (the libusb event-loop thread and the   *)
(* open-device count that starts and stops it) and UsbSender (one bulk     *)
(* request/response exchange with a condition-variable rendezvous).        *)
(*                                                                         *)
(* Every statement of the source that reads or writes shared state is one  *)
(* step of the thread that executes it; a thread's position is its pc.     *)
(***************************************************************************)
EXTENDS Integers, Sequences, FiniteSets, TLC

(***************************************************************************)
(* Bounds of the model.                                                    *)
(***************************************************************************)
\* OpenDevice/CloseDevice calls made in one run
MaxCalls == 4
\* libusb devices that can be opened
NumDevices == 2

\* unsigned int m_devices is 32 bits wide.  Its bit pattern is kept as the
\* two's-complement integer with the same bits, so 0 - 1 is the pattern of
\* UINT_MAX (written -1) and the unsigned value is the pattern modulo 2^32.
INT32_MAX == 2147483647
INT32_MIN == -2147483647 - 1
\* ++ and -- on the 32-bit pattern
Inc32(v) == IF v = INT32_MAX THEN INT32_MIN ELSE v + 1
Dec32(v) == IF v = INT32_MIN THEN INT32_MAX ELSE v - 1
\* the unsigned comparison m_devices > 0
UnsignedPositive(v) == v # 0

Devices == 1 .. NumDevices
\* every OpenDevice call creates at most one thread
LoopIds == 1 .. MaxCalls
\* the application threads that may call into one LibUsbThread
AllCallers == {1, 2}

VARIABLES
  \* ---- LibUsbThread ----
  m_devices,      \* unsigned int m_devices
  m_terminate,    \* bool m_terminate
  m_thread_id,    \* pthread_t m_thread_id; 0 is the value-initialised id
  m_mutex,        \* owner of LibUsbThread::m_mutex: <<"free">>, <<"caller", c>>, <<"loop", t>>
  loop,           \* state of every thread created by pthread_create
  dev,            \* libusb handle of each device: "closed" or "open"
  \* ---- the threads calling OpenDevice / CloseDevice ----
  callers,        \* the application threads that exist
  cpc,            \* position of each caller
  carg,           \* the device the caller's current call is about
  creg,           \* the caller's register holding m_devices during ++ / --
  calls,          \* calls made so far
  hist,           \* history: the calls so far, each with what it saw on entry
  born,           \* history: Len(hist) when each thread was created
  \* ---- UsbSender ----
  m_got_response, \* bool m_got_response
  sender_mutex,   \* owner of UsbSender::m_mutex: "free", "app" or "loop"
  m_out_transfer, \* libusb_transfer *m_out_transfer: its state, status and length
  m_in_transfer,  \* libusb_transfer *m_in_transfer
  m_out_buffer,   \* uint8_t m_out_buffer[]: the cells written so far
  m_send_out_time,\* struct timeval m_send_out_time: the send that stamped it
  m_send_in_time, \* struct timeval m_send_in_time
  \* ---- the application thread using the UsbSender, and libusb's dispatch ----
  requests,       \* the <<command, size>> pairs the application sends
  apc,            \* position of the application thread
  send_ret,       \* what the last SendRequest returned
  sends,          \* SendRequest calls made so far
  cb,             \* position of the loop thread inside a completion callback
  cbt,            \* the loop thread whose libusb_handle_events runs the callback
  xch,            \* history: what has happened to the current exchange
  wt              \* history: what has happened in the current or last Wait

tvars == <<m_devices, m_terminate, m_thread_id, m_mutex, loop, dev,
           callers, cpc, carg, creg, calls, hist, born>>

svars == <<m_got_response, sender_mutex, m_out_transfer, m_in_transfer,
           m_out_buffer, m_send_out_time, m_send_in_time,
           requests, apc, send_ret, sends, cb, cbt, xch, wt>>

vars == <<tvars, svars>>

Free == <<"free">>

\* a thread that was created and has not returned from _InternalRun
Alive(t) == loop[t] \in {"lock", "check", "unlock", "events"}
AliveLoops == {t \in LoopIds : Alive(t)}
Created == {t \in LoopIds : loop[t] # "none"}
Joined == {t \in LoopIds : loop[t] = "joined"}

(***************************************************************************)
(* LibUsbThread::LibUsbThread                                              *)
(***************************************************************************)
LibUsbThreadInit ==
  /\ m_devices = 0
  /\ m_terminate = FALSE
  /\ m_thread_id = 0
  /\ m_mutex = Free
  /\ loop = [t \in LoopIds |-> "none"]
  /\ dev = [d \in Devices |-> "closed"]
  /\ cpc = [c \in AllCallers |-> "idle"]
  /\ carg = [c \in AllCallers |-> 1]
  /\ creg = [c \in AllCallers |-> 0]
  /\ calls = 0
  /\ hist = <<>>
  /\ born = [t \in LoopIds |-> 0]

(***************************************************************************)
(* LibUsbThread::OpenDevice                                                *)
(***************************************************************************)
\* history entry of a call: the operation, its device, whether libusb
\* accepted it, and the count and the threads inside libusb_handle_events
\* when the entry was made
Entry(op, d, ok) ==
  [op |-> op, d |-> d, ok |-> ok, count |-> m_devices,
   inEvents |-> {t \in LoopIds : loop[t] = "events"}]

\* no other call in progress is about device d
NotInUse(d) == \A c \in callers : cpc[c] = "idle" \/ carg[c] # d

CallOpenDevice ==
  \E c \in callers, d \in Devices :
    /\ cpc[c] = "idle"
    /\ calls < MaxCalls
    /\ dev[d] = "closed"
    /\ NotInUse(d)
    /\ cpc' = [cpc EXCEPT ![c] = "open_libusb_open"]
    /\ carg' = [carg EXCEPT ![c] = d]
    /\ calls' = calls + 1
    /\ UNCHANGED <<m_devices, m_terminate, m_thread_id, m_mutex, loop, dev, callers, creg, hist, born>>
    /\ UNCHANGED svars

\* int r = libusb_open(dev, handle); if (r == 0) {...} return r;
OpenDevice_libusb_open ==
  \E c \in callers :
    /\ cpc[c] = "open_libusb_open"
    /\ \E r \in {0, -1} :
         /\ IF r = 0
            THEN /\ dev' = [dev EXCEPT ![carg[c]] = "open"]
                 /\ cpc' = [cpc EXCEPT ![c] = "open_inc_load"]
            ELSE /\ dev' = dev
                 /\ cpc' = [cpc EXCEPT ![c] = "idle"]
         /\ hist' = Append(hist, Entry("open", carg[c], r = 0))
    /\ UNCHANGED <<m_devices, m_terminate, m_thread_id, m_mutex, loop, callers, carg, creg, calls, born>>
    /\ UNCHANGED svars

\* m_devices++ : the load
OpenDevice_inc_load ==
  \E c \in callers :
    /\ cpc[c] = "open_inc_load"
    /\ creg' = [creg EXCEPT ![c] = m_devices]
    /\ cpc' = [cpc EXCEPT ![c] = "open_inc_store"]
    /\ UNCHANGED <<m_devices, m_terminate, m_thread_id, m_mutex, loop, dev, callers, carg, calls, hist, born>>
    /\ UNCHANGED svars

\* m_devices++ : the store
OpenDevice_inc_store ==
  \E c \in callers :
    /\ cpc[c] = "open_inc_store"
    /\ m_devices' = Inc32(creg[c])
    /\ cpc' = [cpc EXCEPT ![c] = "open_check"]
    /\ UNCHANGED <<m_terminate, m_thread_id, m_mutex, loop, dev, callers, carg, creg, calls, hist, born>>
    /\ UNCHANGED svars

\* if (m_devices == 1)
OpenDevice_check ==
  \E c \in callers :
    /\ cpc[c] = "open_check"
    /\ cpc' = [cpc EXCEPT ![c] = IF m_devices = 1 THEN "open_create" ELSE "idle"]
    /\ UNCHANGED <<m_devices, m_terminate, m_thread_id, m_mutex, loop, dev, callers, carg, creg, calls, hist, born>>
    /\ UNCHANGED svars

\* the id pthread_create gives the next thread
NewLoopId == CHOOSE t \in LoopIds : loop[t] = "none" /\ \A u \in LoopIds : loop[u] = "none" => t <= u

\* pthread_create(&m_thread_id, NULL, StartThread, this); the creation is
\* taken to succeed (its failure branch only logs)
OpenDevice_create ==
  \E c \in callers :
    /\ cpc[c] = "open_create"
    /\ \E t \in LoopIds : loop[t] = "none"
    /\ loop' = [loop EXCEPT ![NewLoopId] = "lock"]
    /\ m_thread_id' = NewLoopId
    /\ born' = [born EXCEPT ![NewLoopId] = Len(hist)]
    /\ cpc' = [cpc EXCEPT ![c] = "idle"]
    /\ UNCHANGED <<m_devices, m_terminate, m_mutex, dev, callers, carg, creg, calls, hist>>
    /\ UNCHANGED svars

(***************************************************************************)
(* LibUsbThread::CloseDevice                                               *)
(***************************************************************************)
CallCloseDevice ==
  \E c \in callers, d \in Devices :
    /\ cpc[c] = "idle"
    /\ calls < MaxCalls
    /\ dev[d] = "open"
    /\ NotInUse(d)
    /\ cpc' = [cpc EXCEPT ![c] = "close_check"]
    /\ carg' = [carg EXCEPT ![c] = d]
    /\ calls' = calls + 1
    /\ hist' = Append(hist, Entry("close", d, TRUE))
    /\ UNCHANGED <<m_devices, m_terminate, m_thread_id, m_mutex, loop, dev, callers, creg, born>>
    /\ UNCHANGED svars

\* if (m_devices > 0)
CloseDevice_check ==
  \E c \in callers :
    /\ cpc[c] = "close_check"
    /\ cpc' = [cpc EXCEPT ![c] = IF UnsignedPositive(m_devices) THEN "close_lock" ELSE "close_libusb_close"]
    /\ UNCHANGED <<m_devices, m_terminate, m_thread_id, m_mutex, loop, dev, callers, carg, creg, calls, hist, born>>
    /\ UNCHANGED svars

\* pthread_mutex_lock(&m_mutex)
CloseDevice_lock ==
  \E c \in callers :
    /\ cpc[c] = "close_lock"
    /\ m_mutex = Free
    /\ m_mutex' = <<"caller", c>>
    /\ cpc' = [cpc EXCEPT ![c] = "close_set"]
    /\ UNCHANGED <<m_devices, m_terminate, m_thread_id, loop, dev, callers, carg, creg, calls, hist, born>>
    /\ UNCHANGED svars

\* m_terminate = true
CloseDevice_set ==
  \E c \in callers :
    /\ cpc[c] = "close_set"
    /\ m_terminate' = TRUE
    /\ cpc' = [cpc EXCEPT ![c] = "close_unlock"]
    /\ UNCHANGED <<m_devices, m_thread_id, m_mutex, loop, dev, callers, carg, creg, calls, hist, born>>
    /\ UNCHANGED svars

\* pthread_mutex_unlock(&m_mutex)
CloseDevice_unlock ==
  \E c \in callers :
    /\ cpc[c] = "close_unlock"
    /\ m_mutex' = Free
    /\ cpc' = [cpc EXCEPT ![c] = "close_libusb_close"]
    /\ UNCHANGED <<m_devices, m_terminate, m_thread_id, loop, dev, callers, carg, creg, calls, hist, born>>
    /\ UNCHANGED svars

\* libusb_close(handle)
CloseDevice_libusb_close ==
  \E c \in callers :
    /\ cpc[c] = "close_libusb_close"
    /\ dev' = [dev EXCEPT ![carg[c]] = "closed"]
    /\ cpc' = [cpc EXCEPT ![c] = "close_dec_load"]
    /\ UNCHANGED <<m_devices, m_terminate, m_thread_id, m_mutex, loop, callers, carg, creg, calls, hist, born>>
    /\ UNCHANGED svars

\* m_devices-- : the load
CloseDevice_dec_load ==
  \E c \in callers :
    /\ cpc[c] = "close_dec_load"
    /\ creg' = [creg EXCEPT ![c] = m_devices]
    /\ cpc' = [cpc EXCEPT ![c] = "close_dec_store"]
    /\ UNCHANGED <<m_devices, m_terminate, m_thread_id, m_mutex, loop, dev, callers, carg, calls, hist, born>>
    /\ UNCHANGED svars

\* m_devices-- : the store
CloseDevice_dec_store ==
  \E c \in callers :
    /\ cpc[c] = "close_dec_store"
    /\ m_devices' = Dec32(creg[c])
    /\ cpc' = [cpc EXCEPT ![c] = "close_test"]
    /\ UNCHANGED <<m_terminate, m_thread_id, m_mutex, loop, dev, callers, carg, creg, calls, hist, born>>
    /\ UNCHANGED svars

\* a slip of CloseDevice_test: the join is performed whatever the count
CloseDevice_test_AlwaysJoin ==
  \E c \in callers :
    /\ cpc[c] = "close_test"
    /\ cpc' = [cpc EXCEPT ![c] = "close_join"]
    /\ UNCHANGED <<m_devices, m_terminate, m_thread_id, m_mutex, loop, dev, callers, carg, creg, calls, hist, born>>
    /\ UNCHANGED svars

\* if (m_devices == 0)
CloseDevice_test ==
  \E c \in callers :
    /\ cpc[c] = "close_test"
    /\ cpc' = [cpc EXCEPT ![c] = IF m_devices = 0 THEN "close_join" ELSE "idle"]
    /\ UNCHANGED <<m_devices, m_terminate, m_thread_id, m_mutex, loop, dev, callers, carg, creg, calls, hist, born>>
    /\ UNCHANGED svars

\* pthread_join(m_thread_id, NULL): returns once that thread has returned.
\* Joining an id that names no joinable thread (never created, or joined
\* before) is undefined: the call may return an error at once or never return.
CloseDevice_join ==
  \E c \in callers :
    /\ cpc[c] = "close_join"
    /\ IF m_thread_id \in LoopIds /\ loop[m_thread_id] # "joined"
       THEN /\ loop[m_thread_id] = "exited"
            /\ loop' = [loop EXCEPT ![m_thread_id] = "joined"]
       ELSE loop' = loop
    /\ cpc' = [cpc EXCEPT ![c] = "idle"]
    /\ UNCHANGED <<m_devices, m_terminate, m_thread_id, m_mutex, dev, callers, carg, creg, calls, hist, born>>
    /\ UNCHANGED svars

(***************************************************************************)
(* LibUsbThread::_InternalRun, the body of the thread StartThread runs     *)
(***************************************************************************)
\* pthread_mutex_lock(&m_mutex)
InternalRun_lock ==
  \E t \in LoopIds :
    /\ loop[t] = "lock"
    /\ m_mutex = Free
    /\ m_mutex' = <<"loop", t>>
    /\ loop' = [loop EXCEPT ![t] = "check"]
    /\ UNCHANGED <<m_devices, m_terminate, m_thread_id, dev, callers, cpc, carg, creg, calls, hist, born>>
    /\ UNCHANGED svars

\* if (m_terminate) { return NULL; }  -- the return leaves the mutex locked
InternalRun_check ==
  \E t \in LoopIds :
    /\ loop[t] = "check"
    /\ loop' = [loop EXCEPT ![t] = IF m_terminate THEN "exited" ELSE "unlock"]
    /\ UNCHANGED <<m_devices, m_terminate, m_thread_id, m_mutex, dev, callers, cpc, carg, creg, calls, hist, born>>
    /\ UNCHANGED svars

\* a slip of InternalRun_unlock: the mutex stays locked across
\* libusb_handle_events
InternalRun_unlock_KeepsMutex ==
  \E t \in LoopIds :
    /\ loop[t] = "unlock"
    /\ loop' = [loop EXCEPT ![t] = "events"]
    /\ UNCHANGED <<m_devices, m_terminate, m_thread_id, m_mutex, dev, callers, cpc, carg, creg, calls, hist, born>>
    /\ UNCHANGED svars

\* pthread_mutex_unlock(&m_mutex)
InternalRun_unlock ==
  \E t \in LoopIds :
    /\ loop[t] = "unlock"
    /\ m_mutex' = Free
    /\ loop' = [loop EXCEPT ![t] = "events"]
    /\ UNCHANGED <<m_devices, m_terminate, m_thread_id, dev, callers, cpc, carg, creg, calls, hist, born>>
    /\ UNCHANGED svars

\* libusb_handle_events(m_context) returns (an event was handled, a handle
\* was closed, or its internal timeout passed); a completion callback it
\* has called returns first
InternalRun_handle_events ==
  \E t \in LoopIds :
    /\ loop[t] = "events"
    /\ ~(cb # "none" /\ cbt = t)
    /\ loop' = [loop EXCEPT ![t] = "lock"]
    /\ UNCHANGED <<m_devices, m_terminate, m_thread_id, m_mutex, dev, callers, cpc, carg, creg, calls, hist, born>>
    /\ UNCHANGED svars

(***************************************************************************)
(* UsbSender                                                               *)
(***************************************************************************)
SOF_IDENTIFIER == 90
EOF_IDENTIFIER == 165
MAX_MESSAGE_SIZE == 513
MAX_PACKET_SIZE == 64
IN_BUFFER_SIZE == 1024
ECHO_COMMAND == 128
TX_DMX == 129

\* SendRequest calls made in one run
MaxExchanges == 2

\* enum libusb_transfer_status
TransferStatus ==
  {"COMPLETED", "ERROR", "TIMED_OUT", "CANCELLED", "STALL", "NO_DEVICE", "OVERFLOW"}

\* the bytes the application passes as data: 1, 2, 3, ... as in main()
Payload(size) == [i \in 0 .. size - 1 |-> (i % 255) + 1]

\* a buffer with cells first .. first + Len - 1 overwritten (memcpy, or one store)
Store(buf, first, bytes) ==
  [i \in DOMAIN buf \cup {first + k : k \in DOMAIN bytes} |->
     IF i - first \in DOMAIN bytes THEN bytes[i - first] ELSE buf[i]]
Put(buf, i, byte) == Store(buf, i, [k \in {0} |-> byte])

\* the history of an exchange that has not started
NoExchange ==
  [command |-> 0, size |-> 0,
   submit |-> "none", outStatus |-> "NONE", inSubmit |-> "none",
   inStatus |-> "NONE", inCb |-> 0, inDone |-> FALSE]
\* the history of a Wait that has not been called
NoWait ==
  [x |-> 0, submit |-> "none", cbDoneAtEntry |-> FALSE, blocked |-> FALSE,
   woken |-> "none", returned |-> FALSE, got |-> FALSE]

\* UsbSender::UsbSender: libusb_alloc_transfer returns zeroed transfers, and
\* status 0 is LIBUSB_TRANSFER_COMPLETED; the buffers are not initialised
UsbSenderInit ==
  /\ m_got_response = FALSE
  /\ sender_mutex = "free"
  /\ m_out_transfer = [state |-> "idle", status |-> "COMPLETED", length |-> 0]
  /\ m_in_transfer = [state |-> "idle", status |-> "COMPLETED", length |-> 0]
  /\ m_out_buffer = << >>
  /\ m_send_out_time = 0
  /\ m_send_in_time = 0
  /\ apc = "idle"
  /\ send_ret = TRUE
  /\ sends = 0
  /\ cb = "none"
  /\ cbt = 0
  /\ xch = NoExchange
  /\ wt = NoWait

\* no transfer of the channel is in flight and no callback is running
Quiescent ==
  /\ m_out_transfer.state # "inflight"
  /\ m_in_transfer.state # "inflight"
  /\ cb = "none"

\* a slip of Frame: the size is written as if it fitted in one byte
Frame_LengthOneByte(buf, command, size) ==
  LET b0 == Put(buf, 0, SOF_IDENTIFIER)
      b1 == Put(b0, 1, command % 256)
      b2 == Put(b1, 2, (command \div 256) % 256)
      b3 == Put(b2, 3, size % 256)
      b4 == Put(b3, 4, 0)
      b5 == IF size > 0 THEN Store(b4, 5, Payload(size)) ELSE b4
      o5 == 5 + size
      b6 == Put(b5, o5, EOF_IDENTIFIER)
      o6 == o5 + 1
      pad == o6 % MAX_PACKET_SIZE = 0
  IN [buffer |-> IF pad THEN Put(b6, o6, 0) ELSE b6,
      offset |-> IF pad THEN o6 + 1 ELSE o6]

\* a slip of Frame: a frame whose length is a multiple of the packet size
\* is not padded
Frame_NoPad(buf, command, size) ==
  LET b0 == Put(buf, 0, SOF_IDENTIFIER)
      b1 == Put(b0, 1, command % 256)
      b2 == Put(b1, 2, (command \div 256) % 256)
      b3 == Put(b2, 3, size % 256)
      b4 == Put(b3, 4, (size \div 256) % 256)
      b5 == IF size > 0 THEN Store(b4, 5, Payload(size)) ELSE b4
      o5 == 5 + size
      b6 == Put(b5, o5, EOF_IDENTIFIER)
      o6 == o5 + 1
  IN [buffer |-> b6, offset |-> o6]

\* the frame SendRequest writes: the buffer and the offset after lines 157-175
Frame(buf, command, size) ==
  LET b0 == Put(buf, 0, SOF_IDENTIFIER)
      b1 == Put(b0, 1, command % 256)
      b2 == Put(b1, 2, (command \div 256) % 256)
      b3 == Put(b2, 3, size % 256)
      b4 == Put(b3, 4, (size \div 256) % 256)
      b5 == IF size > 0 THEN Store(b4, 5, Payload(size)) ELSE b4
      o5 == 5 + size
      b6 == Put(b5, o5, EOF_IDENTIFIER)
      o6 == o5 + 1
      pad == o6 % MAX_PACKET_SIZE = 0
  IN [buffer |-> IF pad THEN Put(b6, o6, 0) ELSE b6,
      offset |-> IF pad THEN o6 + 1 ELSE o6]

\* a slip of SendRequest: the size is not compared with MAX_MESSAGE_SIZE
SendRequest_NoSizeCheck ==
  \E rq \in requests, r \in {0, -1} :
    LET command == rq[1]
        size == rq[2]
        f == Frame(m_out_buffer, command, size)
    IN
    /\ apc = "idle"
    /\ sends < MaxExchanges
    /\ Quiescent
    /\ sends' = sends + 1
    /\ m_out_buffer' = f.buffer
    /\ m_send_out_time' = sends + 1
    /\ m_out_transfer' =
         [m_out_transfer EXCEPT !.length = f.offset,
                                !.state = IF r = 0 THEN "inflight" ELSE @]
    /\ send_ret' = (r = 0)
    /\ xch' = [NoExchange EXCEPT !.command = command, !.size = size,
                                 !.submit = IF r = 0 THEN "ok" ELSE "rejected"]
    /\ UNCHANGED <<m_got_response, sender_mutex, m_in_transfer, m_send_in_time,
                   requests, apc, cb, cbt, wt>>
    /\ UNCHANGED tvars

\* bool SendRequest(command, data, size).  The application calls it when the
\* channel is quiescent; r is what libusb_submit_transfer returns.
SendRequest ==
  \E rq \in requests, r \in {0, -1} :
    LET command == rq[1]
        size == rq[2]
        f == Frame(m_out_buffer, command, size)
    IN
    /\ apc = "idle"
    /\ sends < MaxExchanges
    /\ Quiescent
    /\ sends' = sends + 1
    /\ IF size > MAX_MESSAGE_SIZE
       THEN /\ send_ret' = FALSE
            /\ xch' = [NoExchange EXCEPT !.command = command, !.size = size,
                                         !.submit = "toolarge"]
            /\ UNCHANGED <<m_out_buffer, m_out_transfer, m_send_out_time>>
       ELSE /\ m_out_buffer' = f.buffer
            /\ m_send_out_time' = sends + 1
            /\ m_out_transfer' =
                 [m_out_transfer EXCEPT !.length = f.offset,
                                        !.state = IF r = 0 THEN "inflight" ELSE @]
            /\ send_ret' = (r = 0)
            /\ xch' = [NoExchange EXCEPT !.command = command, !.size = size,
                                         !.submit = IF r = 0 THEN "ok" ELSE "rejected"]
    /\ UNCHANGED <<m_got_response, sender_mutex, m_in_transfer, m_send_in_time,
                   requests, apc, cb, cbt, wt>>
    /\ UNCHANGED tvars

(***************************************************************************)
(* UsbSender::Wait, called by the application thread                       *)
(***************************************************************************)
CallWait ==
  /\ apc = "idle"
  /\ apc' = "wait_lock"
  /\ wt' = [NoWait EXCEPT !.x = sends, !.submit = xch.submit,
                          !.cbDoneAtEntry = xch.inDone]
  /\ UNCHANGED <<m_got_response, sender_mutex, m_out_transfer, m_in_transfer,
                 m_out_buffer, m_send_out_time, m_send_in_time,
                 requests, send_ret, sends, cb, cbt, xch>>
  /\ UNCHANGED tvars

\* pthread_mutex_lock(&m_mutex)
Wait_lock ==
  /\ apc = "wait_lock"
  /\ sender_mutex = "free"
  /\ sender_mutex' = "app"
  /\ apc' = "wait_check"
  /\ UNCHANGED <<m_got_response, m_out_transfer, m_in_transfer,
                 m_out_buffer, m_send_out_time, m_send_in_time,
                 requests, send_ret, sends, cb, cbt, xch, wt>>
  /\ UNCHANGED tvars

\* a slip of Wait_check: Wait does not look at m_got_response and always
\* blocks on the condition variable
Wait_check_AlwaysBlocks ==
  /\ apc = "wait_check"
  /\ apc' = "wait_cond"
  /\ sender_mutex' = "free"
  /\ wt' = [wt EXCEPT !.blocked = TRUE]
  /\ UNCHANGED <<m_got_response, m_out_transfer, m_in_transfer,
                 m_out_buffer, m_send_out_time, m_send_in_time,
                 requests, send_ret, sends, cb, cbt, xch>>
  /\ UNCHANGED tvars

\* if (m_got_response) ... else pthread_cond_wait(&m_condition, &m_mutex):
\* the wait unlocks the mutex and blocks in one atomic step
Wait_check ==
  /\ apc = "wait_check"
  /\ IF m_got_response
     THEN /\ apc' = "wait_unlock_return"
          /\ UNCHANGED <<sender_mutex, wt>>
     ELSE /\ apc' = "wait_cond"
          /\ sender_mutex' = "free"
          /\ wt' = [wt EXCEPT !.blocked = TRUE]
  /\ UNCHANGED <<m_got_response, m_out_transfer, m_in_transfer,
                 m_out_buffer, m_send_out_time, m_send_in_time,
                 requests, send_ret, sends, cb, cbt, xch>>
  /\ UNCHANGED tvars

\* pthread_mutex_unlock(&m_mutex); return;
Wait_unlock_return ==
  /\ apc = "wait_unlock_return"
  /\ sender_mutex' = "free"
  /\ apc' = "idle"
  /\ wt' = [wt EXCEPT !.returned = TRUE, !.got = m_got_response]
  /\ UNCHANGED <<m_got_response, m_out_transfer, m_in_transfer,
                 m_out_buffer, m_send_out_time, m_send_in_time,
                 requests, send_ret, sends, cb, cbt, xch>>
  /\ UNCHANGED tvars

\* pthread_cond_wait wakes without a signal, which POSIX permits
Wait_spurious_wakeup ==
  /\ apc = "wait_cond"
  /\ apc' = "wait_reacquire"
  /\ wt' = [wt EXCEPT !.woken = "spurious"]
  /\ UNCHANGED <<m_got_response, sender_mutex, m_out_transfer, m_in_transfer,
                 m_out_buffer, m_send_out_time, m_send_in_time,
                 requests, send_ret, sends, cb, cbt, xch>>
  /\ UNCHANGED tvars

\* pthread_cond_wait locks the mutex again before it returns
Wait_reacquire ==
  /\ apc = "wait_reacquire"
  /\ sender_mutex = "free"
  /\ sender_mutex' = "app"
  /\ apc' = "wait_unlock"
  /\ UNCHANGED <<m_got_response, m_out_transfer, m_in_transfer,
                 m_out_buffer, m_send_out_time, m_send_in_time,
                 requests, send_ret, sends, cb, cbt, xch, wt>>
  /\ UNCHANGED tvars

\* pthread_mutex_unlock(&m_mutex); and Wait returns
Wait_unlock ==
  /\ apc = "wait_unlock"
  /\ sender_mutex' = "free"
  /\ apc' = "idle"
  /\ wt' = [wt EXCEPT !.returned = TRUE, !.got = m_got_response]
  /\ UNCHANGED <<m_got_response, m_out_transfer, m_in_transfer,
                 m_out_buffer, m_send_out_time, m_send_in_time,
                 requests, send_ret, sends, cb, cbt, xch>>
  /\ UNCHANGED tvars

(***************************************************************************)
(* The completion callbacks, which libusb_handle_events calls on the loop  *)
(* thread                                                                  *)
(***************************************************************************)
\* libusb completes the outbound transfer with some status and calls
\* OutTransferCompleteHandler
HandleEvents_out_complete ==
  \E t \in LoopIds, st \in TransferStatus :
    /\ loop[t] = "events"
    /\ cb = "none"
    /\ m_out_transfer.state = "inflight"
    /\ m_out_transfer' = [m_out_transfer EXCEPT !.state = "done", !.status = st]
    /\ cb' = "out_status"
    /\ cbt' = t
    /\ xch' = [xch EXCEPT !.outStatus = st]
    /\ UNCHANGED <<m_got_response, sender_mutex, m_in_transfer,
                   m_out_buffer, m_send_out_time, m_send_in_time,
                   requests, apc, send_ret, sends, wt>>
    /\ UNCHANGED tvars

\* a slip of OutTransferComplete_status: the inbound transfer is submitted
\* whatever the status of the outbound one
OutTransferComplete_status_AnyStatus ==
  /\ cb = "out_status"
  /\ cb' = "out_submit_in"
  /\ UNCHANGED <<m_got_response, sender_mutex, m_out_transfer, m_in_transfer,
                 m_out_buffer, m_send_out_time, m_send_in_time,
                 requests, apc, send_ret, sends, cbt, xch, wt>>
  /\ UNCHANGED tvars

\* _OutTransferComplete: if (m_out_transfer->status == LIBUSB_TRANSFER_COMPLETED)
OutTransferComplete_status ==
  /\ cb = "out_status"
  /\ cb' = IF m_out_transfer.status = "COMPLETED" THEN "out_submit_in" ELSE "none"
  /\ UNCHANGED <<m_got_response, sender_mutex, m_out_transfer, m_in_transfer,
                 m_out_buffer, m_send_out_time, m_send_in_time,
                 requests, apc, send_ret, sends, cbt, xch, wt>>
  /\ UNCHANGED tvars

\* a slip of SubmitInTransfer: the response is marked as received when the
\* inbound transfer is submitted
SubmitInTransfer_SetsFlag ==
  \E r \in {0, -1} :
    /\ cb = "out_submit_in"
    /\ m_in_transfer' =
         [m_in_transfer EXCEPT !.length = IN_BUFFER_SIZE,
                               !.state = IF r = 0 THEN "inflight" ELSE @]
    /\ m_send_in_time' = sends
    /\ m_got_response' = TRUE
    /\ cb' = "none"
    /\ xch' = [xch EXCEPT !.inSubmit = IF r = 0 THEN "ok" ELSE "rejected"]
    /\ UNCHANGED <<sender_mutex, m_out_transfer,
                   m_out_buffer, m_send_out_time,
                   requests, apc, send_ret, sends, cbt, wt>>
    /\ UNCHANGED tvars

\* SubmitInTransfer, called from _OutTransferComplete; r is what
\* libusb_submit_transfer returns
SubmitInTransfer ==
  \E r \in {0, -1} :
    /\ cb = "out_submit_in"
    /\ m_in_transfer' =
         [m_in_transfer EXCEPT !.length = IN_BUFFER_SIZE,
                               !.state = IF r = 0 THEN "inflight" ELSE @]
    /\ m_send_in_time' = sends
    /\ cb' = "none"
    /\ xch' = [xch EXCEPT !.inSubmit = IF r = 0 THEN "ok" ELSE "rejected"]
    /\ UNCHANGED <<m_got_response, sender_mutex, m_out_transfer,
                   m_out_buffer, m_send_out_time,
                   requests, apc, send_ret, sends, cbt, wt>>
    /\ UNCHANGED tvars

\* libusb completes the inbound transfer with some status and calls
\* InTransferCompleteHandler
HandleEvents_in_complete ==
  \E t \in LoopIds, st \in TransferStatus :
    /\ loop[t] = "events"
    /\ cb = "none"
    /\ m_in_transfer.state = "inflight"
    /\ m_in_transfer' = [m_in_transfer EXCEPT !.state = "done", !.status = st]
    /\ cb' = "in_lock"
    /\ cbt' = t
    /\ xch' = [xch EXCEPT !.inStatus = st, !.inCb = @ + 1]
    /\ UNCHANGED <<m_got_response, sender_mutex, m_out_transfer,
                   m_out_buffer, m_send_out_time, m_send_in_time,
                   requests, apc, send_ret, sends, wt>>
    /\ UNCHANGED tvars

\* _InTransferComplete: pthread_mutex_lock(&m_mutex)
InTransferComplete_lock ==
  /\ cb = "in_lock"
  /\ sender_mutex = "free"
  /\ sender_mutex' = "loop"
  /\ cb' = "in_set"
  /\ UNCHANGED <<m_got_response, m_out_transfer, m_in_transfer,
                 m_out_buffer, m_send_out_time, m_send_in_time,
                 requests, apc, send_ret, sends, cbt, xch, wt>>
  /\ UNCHANGED tvars

\* a slip of InTransferComplete_set: the flag is set only for a transfer
\* that completed with success
InTransferComplete_set_OnSuccessOnly ==
  /\ cb = "in_set"
  /\ m_got_response' = (m_got_response \/ m_in_transfer.status = "COMPLETED")
  /\ cb' = "in_unlock"
  /\ UNCHANGED <<sender_mutex, m_out_transfer, m_in_transfer,
                 m_out_buffer, m_send_out_time, m_send_in_time,
                 requests, apc, send_ret, sends, cbt, xch, wt>>
  /\ UNCHANGED tvars

\* m_got_response = true
InTransferComplete_set ==
  /\ cb = "in_set"
  /\ m_got_response' = TRUE
  /\ cb' = "in_unlock"
  /\ UNCHANGED <<sender_mutex, m_out_transfer, m_in_transfer,
                 m_out_buffer, m_send_out_time, m_send_in_time,
                 requests, apc, send_ret, sends, cbt, xch, wt>>
  /\ UNCHANGED tvars

\* pthread_mutex_unlock(&m_mutex)
InTransferComplete_unlock ==
  /\ cb = "in_unlock"
  /\ sender_mutex' = "free"
  /\ cb' = "in_signal"
  /\ UNCHANGED <<m_got_response, m_out_transfer, m_in_transfer,
                 m_out_buffer, m_send_out_time, m_send_in_time,
                 requests, apc, send_ret, sends, cbt, xch, wt>>
  /\ UNCHANGED tvars

\* pthread_cond_signal(&m_condition): a thread blocked in pthread_cond_wait
\* is woken; the callback returns
InTransferComplete_signal ==
  /\ cb = "in_signal"
  /\ IF apc = "wait_cond"
     THEN /\ apc' = "wait_reacquire"
          /\ wt' = [wt EXCEPT !.woken = "signal"]
     ELSE UNCHANGED <<apc, wt>>
  /\ cb' = "none"
  /\ xch' = [xch EXCEPT !.inDone = TRUE]
  /\ UNCHANGED <<m_got_response, sender_mutex, m_out_transfer, m_in_transfer,
                 m_out_buffer, m_send_out_time, m_send_in_time,
                 requests, send_ret, sends, cbt>>
  /\ UNCHANGED tvars

(***************************************************************************)
(* The values the state takes.                                             *)
(***************************************************************************)
\* the members of LibUsbThread, its threads and its callers
LibUsbThreadTypeOK ==
  /\ m_devices \in INT32_MIN .. INT32_MAX
  /\ m_terminate \in BOOLEAN
  /\ m_thread_id \in {0} \cup LoopIds
  /\ m_mutex \in {Free} \cup {<<"caller", c>> : c \in AllCallers}
                        \cup {<<"loop", t>> : t \in LoopIds}
  /\ loop \in [LoopIds -> {"none", "lock", "check", "unlock", "events", "exited", "joined"}]
  /\ dev \in [Devices -> {"closed", "open"}]
  /\ callers \subseteq AllCallers
  /\ carg \in [AllCallers -> Devices]
  /\ creg \in [AllCallers -> INT32_MIN .. INT32_MAX]
  /\ calls \in 0 .. MaxCalls
  /\ Len(hist) <= calls
  /\ born \in [LoopIds -> 0 .. MaxCalls]

\* the members of UsbSender, its application thread and the callbacks
UsbSenderTypeOK ==
  /\ m_got_response \in BOOLEAN
  /\ sender_mutex \in {"free", "app", "loop"}
  /\ m_out_transfer.state \in {"idle", "inflight", "done"}
  /\ m_out_transfer.status \in TransferStatus
  /\ m_in_transfer.state \in {"idle", "inflight", "done"}
  /\ m_in_transfer.status \in TransferStatus
  /\ \A i \in DOMAIN m_out_buffer : m_out_buffer[i] \in 0 .. 255
  /\ m_send_out_time \in 0 .. MaxExchanges
  /\ m_send_in_time \in 0 .. MaxExchanges
  /\ send_ret \in BOOLEAN
  /\ sends \in 0 .. MaxExchanges
  /\ apc \in {"idle", "wait_lock", "wait_check", "wait_unlock_return",
              "wait_cond", "wait_reacquire", "wait_unlock"}
  /\ cb \in {"none", "out_status", "out_submit_in",
             "in_lock", "in_set", "in_unlock", "in_signal"}
  /\ cbt \in {0} \cup LoopIds

TypeOK == LibUsbThreadTypeOK /\ UsbSenderTypeOK

(***************************************************************************)
(* Specifications of LibUsbThread.                                         *)
(* SpecSeq: one application thread, so the calls are made one after        *)
(* another, as in main().  SpecConc: two application threads whose calls   *)
(* may overlap.                                                            *)
(***************************************************************************)
NextThread ==
  \/ CallOpenDevice
  \/ OpenDevice_libusb_open
  \/ OpenDevice_inc_load
  \/ OpenDevice_inc_store
  \/ OpenDevice_check
  \/ OpenDevice_create
  \/ CallCloseDevice
  \/ CloseDevice_check
  \/ CloseDevice_lock
  \/ CloseDevice_set
  \/ CloseDevice_unlock
  \/ CloseDevice_libusb_close
  \/ CloseDevice_dec_load
  \/ CloseDevice_dec_store
  \/ CloseDevice_test
  \/ CloseDevice_join
  \/ InternalRun_lock
  \/ InternalRun_check
  \/ InternalRun_unlock
  \/ InternalRun_handle_events

InitSeq == LibUsbThreadInit /\ callers = {1} /\ UsbSenderInit /\ requests = {}
InitConc == LibUsbThreadInit /\ callers = AllCallers /\ UsbSenderInit /\ requests = {}

SpecSeq == InitSeq /\ [][NextThread]_vars
SpecConc == InitConc /\ [][NextThread]_vars

(***************************************************************************)
(* Specification of UsbSender: the state main() is in once LocateDevice    *)
(* has opened the device (one device open, the loop thread started), with  *)
(* one application thread that sends and waits.  The loop thread keeps     *)
(* running: no device is opened or closed here.                            *)
(***************************************************************************)
InitSender ==
  /\ m_devices = 1
  /\ m_terminate = FALSE
  /\ m_thread_id = 1
  /\ m_mutex = Free
  /\ loop = [t \in LoopIds |-> IF t = 1 THEN "lock" ELSE "none"]
  /\ dev = [d \in Devices |-> IF d = 1 THEN "open" ELSE "closed"]
  /\ callers = {}
  /\ cpc = [c \in AllCallers |-> "idle"]
  /\ carg = [c \in AllCallers |-> 1]
  /\ creg = [c \in AllCallers |-> 0]
  /\ calls = 1
  /\ hist = <<[op |-> "open", d |-> 1, ok |-> TRUE, count |-> 0, inEvents |-> {}]>>
  /\ born = [t \in LoopIds |-> IF t = 1 THEN 1 ELSE 0]
  /\ UsbSenderInit
  /\ requests = {<<TX_DMX, 3>>, <<ECHO_COMMAND, 0>>, <<TX_DMX, MAX_MESSAGE_SIZE + 1>>}

NextSender ==
  \/ SendRequest
  \/ CallWait
  \/ Wait_lock
  \/ Wait_check
  \/ Wait_unlock_return
  \/ Wait_spurious_wakeup
  \/ Wait_reacquire
  \/ Wait_unlock
  \/ HandleEvents_out_complete
  \/ OutTransferComplete_status
  \/ SubmitInTransfer
  \/ HandleEvents_in_complete
  \/ InTransferComplete_lock
  \/ InTransferComplete_set
  \/ InTransferComplete_unlock
  \/ InTransferComplete_signal
  \/ InternalRun_lock
  \/ InternalRun_check
  \/ InternalRun_unlock
  \/ InternalRun_handle_events

\* Every thread that can take a step of the code eventually takes it, and
\* libusb completes every transfer in flight (each has the 1000 ms timeout
\* kTimeout) while the loop thread handles events.  Nothing obliges the
\* application to make a call, nor pthread_cond_wait to wake spuriously.
FairSender ==
  /\ WF_vars(Wait_lock)
  /\ WF_vars(Wait_check)
  /\ WF_vars(Wait_unlock_return)
  /\ WF_vars(Wait_reacquire)
  /\ WF_vars(Wait_unlock)
  /\ SF_vars(HandleEvents_out_complete)
  /\ WF_vars(OutTransferComplete_status)
  /\ WF_vars(SubmitInTransfer)
  /\ SF_vars(HandleEvents_in_complete)
  /\ WF_vars(InTransferComplete_lock)
  /\ WF_vars(InTransferComplete_set)
  /\ WF_vars(InTransferComplete_unlock)
  /\ WF_vars(InTransferComplete_signal)
  /\ WF_vars(InternalRun_lock)
  /\ WF_vars(InternalRun_check)
  /\ WF_vars(InternalRun_unlock)
  /\ WF_vars(InternalRun_handle_events)

SpecSender == InitSender /\ [][NextSender]_vars /\ FairSender

(***************************************************************************)
(* Claims about LibUsbThread.                                              *)
(***************************************************************************)
AllIdle == \A c \in callers : cpc[c] = "idle"

\* m_mutex is locked by a thread that has returned from _InternalRun: nothing
\* will ever unlock it
MutexLeaked == \E t \in LoopIds : m_mutex = <<"loop", t>> /\ loop[t] \in {"exited", "joined"}

\* C3: between calls, whenever m_devices > 0 exactly one loop thread is alive,
\* and whenever the count is back to 0 no loop thread is alive.
C3_ThreadMatchesCount ==
  AllIdle =>
    /\ UnsignedPositive(m_devices) => Cardinality(AliveLoops) = 1
    /\ m_devices = 0 => AliveLoops = {}

\* the history starts with two successful opens of different devices and
\* goes on with closes only
TwoOpenedThenClosed ==
  /\ Len(hist) >= 2
  /\ hist[1].op = "open" /\ hist[1].ok
  /\ hist[2].op = "open" /\ hist[2].ok
  /\ \A i \in 3 .. Len(hist) : hist[i].op = "close"

\* C4: two devices opened one after the other, then both closed: the thread
\* is created exactly once, is still running when the first CloseDevice has
\* returned, has been joined exactly once when the second has returned, and
\* no CloseDevice is stuck on a mutex that will never be unlocked.
C4_TwoDevicesOneThread ==
  TwoOpenedThenClosed =>
    /\ Cardinality(Created) = 1
    /\ (Len(hist) = 3 /\ AllIdle) => Cardinality(AliveLoops) = 1
    /\ (Len(hist) = 4 /\ AllIdle) => (Cardinality(Joined) = 1 /\ AliveLoops = {})
    /\ (\E c \in callers : cpc[c] = "close_lock") => ~MutexLeaked

\* C5: a CloseDevice called with exactly one device open and the loop thread
\* inside libusb_handle_events is never stuck for good on the way to its
\* join: the mutex it waits for is not held by a thread that has returned.
C5_LastCloseNotStuck ==
  \A c \in callers :
    (/\ cpc[c] = "close_lock"
     /\ hist # <<>>
     /\ hist[Len(hist)].op = "close"
     /\ hist[Len(hist)].count = 1
     /\ hist[Len(hist)].inEvents # {})
    => ~MutexLeaked

\* a device is open and no call is closing it
DeviceStillOpen == \E d \in Devices : dev[d] = "open" /\ NotInUse(d)

\* C6: two concurrent successful OpenDevice calls that start from count 0
\* create exactly one loop thread and leave the count at 2, and no close has
\* stopped the thread while another device is still open.
C6_OpensSerialized ==
  /\ (/\ Len(hist) = 2 /\ calls = 2 /\ AllIdle
      /\ hist[1].op = "open" /\ hist[1].ok
      /\ hist[2].op = "open" /\ hist[2].ok)
     => (Cardinality(Created) = 1 /\ m_devices = 2)
  /\ (DeviceStillOpen /\ Created # {}) => AliveLoops # {}

\* a CloseDevice call was made after thread t was created
CloseAfterBirth(t) == \E i \in (born[t] + 1) .. Len(hist) : hist[i].op = "close"

\* C7: every thread OpenDevice creates gets to run: it is never stuck for
\* good at the lock of _InternalRun, and it has returned only if a
\* CloseDevice made after its creation asked for termination.
C7_FreshThreadRuns ==
  \A t \in LoopIds :
    /\ loop[t] = "lock" => ~MutexLeaked
    /\ loop[t] \in {"exited", "joined"} => CloseAfterBirth(t)

(***************************************************************************)
(* Claims about UsbSender.                                                 *)
(***************************************************************************)
\* the application thread is inside Wait
AppInWait ==
  apc \in {"wait_lock", "wait_check", "wait_unlock_return",
           "wait_cond", "wait_reacquire", "wait_unlock"}

\* the loop thread is inside _InTransferComplete
InInCallback == cb \in {"in_lock", "in_set", "in_unlock", "in_signal"}

\* the outbound transfer of the current exchange completed without success
OutFaulted == xch.outStatus \notin {"NONE", "COMPLETED"}

\* C1: on the first exchange, a Wait that meets the inbound-completion
\* callback in any interleaving returns, and a Wait entered after the
\* callback has finished never blocks on the condition variable.
C1_NoLostWakeup ==
  /\ []((wt.x = 1 /\ wt.cbDoneAtEntry) => ~wt.blocked)
  /\ ((AppInWait /\ wt.x = 1 /\ xch.inCb > 0) ~> wt.returned)

\* the first Wait was entered after the callback had finished, and returned
C1_Witness == wt.x = 1 /\ wt.cbDoneAtEntry /\ wt.returned

\* C2: after a successful SendRequest whose outbound transfer completes
\* without success, a Wait on that exchange eventually returns, and no
\* inbound completion has run for the exchange (Faulted, not ResponseReady).
C2_FaultedWaitReturns ==
  (AppInWait /\ wt.x = sends /\ xch.submit = "ok" /\ OutFaulted)
    ~> (wt.returned /\ xch.inCb = 0)

\* C8: the inbound-completion callback sets m_got_response while it holds
\* the mutex, signals only after that, whatever the status of the transfer,
\* and a caller blocked in Wait when the callback starts is released.
C8_InCallbackReleasesWaiter ==
  /\ [][(cb = "in_set" /\ cb' # "in_set") => (sender_mutex = "loop" /\ m_got_response')]_vars
  /\ [](cb = "in_signal" => (m_got_response /\ sender_mutex # "loop"))
  /\ [](xch.inDone => m_got_response)
  /\ ((apc = "wait_cond" /\ InInCallback) ~> wt.returned)

\* a Wait that blocked was woken by the signal of a callback whose inbound
\* transfer had timed out, and returned
C8_Witness ==
  wt.returned /\ wt.blocked /\ wt.woken = "signal" /\ xch.inStatus = "TIMED_OUT"

\* C9: when libusb rejects the outbound submission of the first SendRequest,
\* SendRequest returns false, no completion callback runs for the exchange,
\* m_got_response stays false and no Wait made afterwards returns.
C9_RejectedSendNeverReleases ==
  (sends = 1 /\ xch.submit = "rejected") =>
    /\ ~send_ret
    /\ xch.outStatus = "NONE" /\ xch.inCb = 0
    /\ ~m_got_response
    /\ ~(wt.x = 1 /\ wt.returned)

\* C10: once the outbound-completion callback has run with a status other
\* than success, no inbound transfer is submitted and no inbound-completion
\* callback runs for the exchange, and the callback leaves the inbound
\* transfer and m_got_response as they were.
C10_FaultedOutSubmitsNothing ==
  /\ [](OutFaulted =>
          (xch.inSubmit = "none" /\ xch.inCb = 0 /\ m_in_transfer.state # "inflight"))
  /\ [][(cb = "out_status" /\ m_out_transfer.status # "COMPLETED") =>
          (/\ cb' \in {"out_status", "none"}
           /\ m_in_transfer' = m_in_transfer
           /\ m_got_response' = m_got_response)]_vars

\* the outbound-completion callback has run with a timeout and returned
C10_Witness == xch.outStatus = "TIMED_OUT" /\ cb = "none"

(***************************************************************************)
(* Specification of the frames SendRequest builds: the application calls   *)
(* SendRequest with one command and one size out of every size up to two   *)
(* beyond the limit, and may also send a frame of the largest size, so     *)
(* that a frame is also written over the bytes of a longer one.  A second  *)
(* SendRequest follows one that libusb rejected or that was too large.     *)
(***************************************************************************)
\* uint16_t command: a command of the enum, one with two non-zero bytes,
\* and the largest
FrameCommands == {TX_DMX, 4660, 65535}
\* unsigned int size: every size SendRequest accepts and two it refuses
FrameSizes == 0 .. MAX_MESSAGE_SIZE + 2

InitFrame ==
  /\ m_devices = 1
  /\ m_terminate = FALSE
  /\ m_thread_id = 1
  /\ m_mutex = Free
  /\ loop = [t \in LoopIds |-> IF t = 1 THEN "events" ELSE "none"]
  /\ dev = [d \in Devices |-> IF d = 1 THEN "open" ELSE "closed"]
  /\ callers = {}
  /\ cpc = [c \in AllCallers |-> "idle"]
  /\ carg = [c \in AllCallers |-> 1]
  /\ creg = [c \in AllCallers |-> 0]
  /\ calls = 1
  /\ hist = <<[op |-> "open", d |-> 1, ok |-> TRUE, count |-> 0, inEvents |-> {}]>>
  /\ born = [t \in LoopIds |-> IF t = 1 THEN 1 ELSE 0]
  /\ UsbSenderInit
  /\ \E c \in FrameCommands, n \in FrameSizes :
       requests = {<<c, n>>, <<ECHO_COMMAND, MAX_MESSAGE_SIZE>>}

NextFrame == SendRequest

SpecFrame == InitFrame /\ [][NextFrame]_vars

(***************************************************************************)
(* Claims about the frame.                                                 *)
(***************************************************************************)
\* SendRequest built a frame for the current exchange
FrameBuilt == xch.submit \in {"ok", "rejected"}

\* C11: the frame in the outbound buffer is 0x5A, the command low byte then
\* high byte, the length low byte then high byte, the payload bytes in
\* order, 0xA5: the command and the length decode to what was passed, the
\* payload is recovered exactly, and command 0x0081 with payload 1 2 3 gives
\* the nine bytes 5A 81 00 03 00 01 02 03 A5.
C11_FrameLayout ==
  FrameBuilt =>
    LET n == xch.size
        c == xch.command
    IN /\ n <= 513
       /\ m_out_buffer[0] = 90
       /\ m_out_buffer[1] = c % 256
       /\ m_out_buffer[2] = c \div 256
       /\ m_out_buffer[1] + 256 * m_out_buffer[2] = c
       /\ m_out_buffer[3] = n % 256
       /\ m_out_buffer[4] = n \div 256
       /\ m_out_buffer[3] + 256 * m_out_buffer[4] = n
       /\ [i \in 0 .. n - 1 |-> m_out_buffer[5 + i]] = Payload(n)
       /\ m_out_buffer[5 + n] = 165
       /\ m_out_transfer.length >= n + 6
       /\ (c = 129 /\ n = 3) =>
            /\ [i \in 0 .. 8 |-> m_out_buffer[i]]
                 = [i \in 0 .. 8 |-> <<90, 129, 0, 3, 0, 1, 2, 3, 165>>[i + 1]]
            /\ m_out_transfer.length = 9

\* a frame of the largest payload with a two-byte command was submitted
C11_Witness ==
  xch.submit = "ok" /\ xch.command = 4660 /\ xch.size = 513
  /\ m_out_buffer[4] = 2 /\ m_out_buffer[518] = 165

\* C12: the length of the submitted transfer is n + 6 when n + 6 is not a
\* multiple of 64, and n + 7 with a last byte of 0 when it is; so the length
\* is never a multiple of 64, and a payload of 58 bytes gives 65 bytes.
C12_PaddedLength ==
  FrameBuilt =>
    LET n == xch.size
        len == m_out_transfer.length
    IN /\ (n + 6) % 64 # 0 => len = n + 6
       /\ (n + 6) % 64 = 0 => (len = n + 7 /\ m_out_buffer[n + 6] = 0)
       /\ len % 64 # 0
       /\ n = 58 => len = 65

\* a payload of 58 bytes was submitted as 65 bytes, the last one 0
C12_Witness ==
  xch.submit = "ok" /\ xch.size = 58 /\ m_out_transfer.length = 65
  /\ m_out_buffer[63] = 165 /\ m_out_buffer[64] = 0

\* C13: a SendRequest whose size is greater than 513 returns false and
\* changes neither the outbound buffer, nor a transfer (none is submitted),
\* nor a send timestamp, nor m_got_response.
C13_TooLargeTouchesNothing ==
  [][(sends' # sends /\ xch'.size > 513) =>
       (/\ ~send_ret'
        /\ xch'.submit = "toolarge"
        /\ m_out_buffer' = m_out_buffer
        /\ m_out_transfer' = m_out_transfer
        /\ m_in_transfer' = m_in_transfer
        /\ m_send_out_time' = m_send_out_time
        /\ m_send_in_time' = m_send_in_time
        /\ m_got_response' = m_got_response)]_vars

\* a SendRequest that was too large followed a completed exchange and left
\* its frame, its transfers and its flag in place
C13_Witness ==
  /\ sends = 2 /\ xch.submit = "toolarge" /\ xch.size = 514 /\ ~send_ret
  /\ m_got_response /\ m_out_transfer.state = "done" /\ m_out_transfer.length = 9
  /\ m_send_out_time = 1

(***************************************************************************)
(* Further claims about LibUsbThread.                                      *)
(***************************************************************************)
\* C14: a loop thread that is inside libusb_handle_events does not hold
\* m_mutex, and neither does the loop thread on which a completion callback
\* is running.
C14_NoMutexAcrossEvents ==
  /\ \A t \in LoopIds : loop[t] = "events" => m_mutex # <<"loop", t>>
  /\ cb # "none" => (loop[cbt] = "events" /\ m_mutex # <<"loop", cbt>>)

\* the inbound-completion callback is running inside libusb_handle_events
\* after the loop thread has locked and unlocked the mutex
C14_Witness ==
  cb = "in_set" /\ cbt = 1 /\ loop[1] = "events" /\ m_mutex = Free

\* caller c is inside CloseDevice
InCloseDevice(c) ==
  cpc[c] \in {"close_check", "close_lock", "close_set", "close_unlock",
              "close_libusb_close", "close_dec_load", "close_dec_store",
              "close_test", "close_join"}

\* C15: in a CloseDevice call that found the count greater than 0, the flag
\* is set while the caller holds the mutex and the handle is still open, the
\* handle is closed before the count is decremented, the join is reached
\* only after the decrement and only when the decremented count is 0, and
\* m_terminate is never written once the handle of the call is closed.
C15_CloseOrder ==
  /\ [](\A c \in callers :
          (InCloseDevice(c) /\ UnsignedPositive(hist[Len(hist)].count)) =>
            LET e == hist[Len(hist)]
            IN /\ dev[e.d] = "closed" => m_terminate
               /\ m_devices # e.count =>
                    (dev[e.d] = "closed" /\ m_devices = Dec32(e.count))
               /\ cpc[c] = "close_join" =>
                    (m_devices = 0 /\ e.count = 1 /\ dev[e.d] = "closed"))
  /\ [][\A c \in callers :
          (cpc[c] = "close_set" /\ cpc'[c] # "close_set") =>
            (/\ m_terminate'
             /\ m_mutex = <<"caller", c>> /\ m_mutex' = m_mutex
             /\ dev[carg[c]] = "open"
             /\ m_devices = hist[Len(hist)].count)]_vars
  /\ [][m_terminate' # m_terminate =>
          \E c \in callers : cpc[c] = "close_set" /\ dev[carg[c]] = "open"]_vars
  /\ [][\A t \in LoopIds :
          (loop'[t] = "joined" /\ loop[t] # "joined") =>
            (m_devices = 0 /\ m_terminate /\ dev[hist[Len(hist)].d] = "closed")]_vars

\* a CloseDevice call that found the count at 1 has set the flag, closed the
\* handle, decremented the count to 0, joined the thread and returned
C15_Witness ==
  /\ AllIdle /\ Len(hist) = 2
  /\ hist[2].op = "close" /\ hist[2].count = 1
  /\ m_terminate /\ dev[hist[2].d] = "closed" /\ m_devices = 0
  /\ loop[1] = "joined"

\* C18: a loop thread that has returned from _InternalRun does not hold
\* m_mutex, so the mutex is free once the thread has exited.
C18_ExitReleasesMutex ==
  \A t \in LoopIds : loop[t] \in {"exited", "joined"} => m_mutex # <<"loop", t>>

(***************************************************************************)
(* Further claims about UsbSender.                                         *)
(***************************************************************************)
\* both transfers of the channel are in flight
BothInFlight == m_out_transfer.state = "inflight" /\ m_in_transfer.state = "inflight"

\* C16: within an exchange the inbound transfer is submitted only inside an
\* outbound-completion callback whose transfer completed with success, the
\* inbound callback runs only for a submitted inbound transfer, m_got_response
\* becomes true only inside the inbound-completion callback, and the two
\* transfers are never in flight together.
C16_ExchangeOrder ==
  /\ [](/\ xch.outStatus # "NONE" => xch.submit = "ok"
        /\ xch.inSubmit # "none" => xch.outStatus = "COMPLETED"
        /\ xch.inCb > 0 => xch.inSubmit = "ok"
        /\ xch.inDone => (xch.inCb > 0 /\ m_got_response)
        /\ ~BothInFlight)
  /\ [][(m_in_transfer'.state = "inflight" /\ m_in_transfer.state # "inflight") =>
          (/\ cb = "out_submit_in"
           /\ m_out_transfer.state = "done"
           /\ m_out_transfer.status = "COMPLETED")]_vars
  /\ [][(m_got_response' /\ ~m_got_response) => cb = "in_set"]_vars

\* the first exchange went through every stage: sent, outbound completed
\* with success, inbound submitted, inbound callback finished
C16_Witness ==
  /\ sends = 1 /\ xch.submit = "ok" /\ xch.outStatus = "COMPLETED"
  /\ xch.inSubmit = "ok" /\ xch.inCb = 1 /\ xch.inDone /\ m_got_response

\* C17: a Wait for an accepted exchange that returns without a spurious
\* wake-up returns only after the inbound-completion callback of that very
\* exchange has started.
C17_WaitNeedsOwnResponse ==
  (wt.returned /\ wt.x = sends /\ wt.submit = "ok" /\ wt.woken # "spurious")
    => xch.inCb > 0

\* C19: when Wait has returned, m_got_response was true at its return.
C19_WaitReturnsWithFlag == wt.returned => wt.got

\* C20: once the outbound transfer of the exchange has completed with
\* success, a caller in Wait for that exchange eventually returns, whatever
\* libusb answers to the inbound submission.
C20_SuccessReleasesWaiter ==
  (AppInWait /\ wt.x = sends /\ xch.outStatus = "COMPLETED") ~> wt.returned

=============================================================================
